---- MODULE Spec2Model ----
(***************************************************************************)
(* The three HTTP handlers of src/index.js (POST /register, /send-otp,    *)
(* /verify-otp) running concurrently against the hosted service (the      *)
(* users table and the phone OTP channel).                                *)
(*                                                                         *)
(* Granularity: a handler only touches shared state through the calls it  *)
(* awaits, and everything else it does is local to the request.  Each     *)
(* action below is one call taking effect at the service together with    *)
(* the handler code around it: the code that leads to the call, and the   *)
(* code that consumes its result up to the next call or the response.     *)
(* Requests interleave between the calls of a handler: between the email  *)
(* lookup and the insert, between the code check and the update.          *)
(***************************************************************************)
EXTENDS Naturals, Sequences, FiniteSets

\* ---------------------------------------------------------------- bounds
MaxInFlight == 2
MaxUsers == 2
MaxTokens == 1

\* ------------------------------------------------- program constants
MinFullName == 3
MinPassword == 6
BcryptCost == 10

\* ---------------------------------------------------------- JSON values
\* A value of the request body: its JavaScript type and its characters
\* (what String(value) gives; '' for undefined and null).
JStr(cs) == [t |-> "string", s |-> cs]
Undefined == [t |-> "undefined", s |-> <<>>]
JNull == [t |-> "null", s |-> <<>>]
JTrue == [t |-> "boolean", s |-> <<"t", "r", "u", "e">>]
JFalse == [t |-> "boolean", s |-> <<"f", "a", "l", "s", "e">>]

\* express-validator hands every standard validator the value as a string.
toString(v) == v.s

\* JavaScript truthiness, as used by `!phone`, `!token`, `isOfficer ? a : b`.
Truthy(v) ==
    CASE v.t = "boolean" -> v = JTrue
      [] v.t = "string" -> v.s # <<>>
      [] OTHER -> FALSE

Digits == {"0", "1", "2", "3", "4", "5", "6", "7", "8", "9"}

isLength(str, min) == Len(str) >= min

isEmail(str) ==
    \E i \in 2..Len(str) :
        /\ str[i] = "@"
        /\ \A k \in 1..Len(str) : str[k] = "@" => k = i
        /\ \E j \in (i + 2)..(Len(str) - 1) : str[j] = "."

\* validator.js checks locale patterns; kept here: an optional "+", then digits
\* only, at least seven of them.
isMobilePhone(str) ==
    LET ds == IF str # <<>> /\ Head(str) = "+" THEN Tail(str) ELSE str
    IN  /\ Len(ds) >= 7
        /\ \A k \in 1..Len(ds) : ds[k] \in Digits

isBoolean(str) ==
    str \in {<<"t", "r", "u", "e">>, <<"f", "a", "l", "s", "e">>, <<"1">>, <<"0">>}

\* The validation chain of POST /register, in order.
RegisterFields == <<"fullName", "email", "phone", "password", "anonymous", "isOfficer">>

Passes(f, b) ==
    CASE f = "fullName" -> isLength(toString(b.fullName), MinFullName)
      [] f = "email" -> isEmail(toString(b.email))
      [] f = "phone" -> isMobilePhone(toString(b.phone))
      [] f = "password" -> isLength(toString(b.password), MinPassword)
      [] f = "anonymous" -> isBoolean(toString(b.anonymous))
      [] f = "isOfficer" -> isBoolean(toString(b.isOfficer))

IsFailing(b, f) == ~Passes(f, b)

\* errors.array(): the fields whose validator failed, in chain order.
validationResult(b) == SelectSeq(RegisterFields, LAMBDA f : IsFailing(b, f))

hashedPassword(password) == [alg |-> "bcrypt", cost |-> BcryptCost, of |-> password.s]

\* Mutant of Role: the two branches exchanged.
Role_Exchanged(isOfficer) ==
    IF Truthy(isOfficer) THEN "Citizen" ELSE "Law Enforcement Officer"

\* isOfficer ? 'Law Enforcement Officer' : 'Citizen'
Role(isOfficer) ==
    IF Truthy(isOfficer) THEN "Law Enforcement Officer" ELSE "Citizen"

\* The row POST /register inserts.
NewUser(b) ==
    [full_name |-> b.fullName,
     email |-> b.email,
     phone |-> b.phone,
     password |-> hashedPassword(b.password),
     role |-> Role(b.isOfficer),
     anonymous_status |-> b.anonymous,
     officer_verification |-> IF Truthy(b.isOfficer) THEN JFalse ELSE JNull,
     verification_status |-> FALSE]

\* ------------------------------------------------------------ inputs
Chars(n) == <<"0", "7", "0", "0", "0", "0", n>>
Phone1 == JStr(Chars("1"))
Phone2 == JStr(Chars("2"))
Phones == {Phone1, Phone2}
EmailA == JStr(<<"a", "@", "x", ".", "i", "o">>)
EmailB == JStr(<<"b", "@", "x", ".", "i", "o">>)
BadEmail == JStr(<<"a", ".", "i", "o">>)
Ann == JStr(<<"A", "n", "n">>)
Secret == JStr(<<"s", "e", "c", "r", "e", "t">>)

Digit == <<"1", "2", "3", "4", "5", "6", "7", "8", "9">>
\* The n-th code the OTP channel issues for a phone.
Code(n) == <<Digit[n]>>
Tokens == {JStr(Code(n)) : n \in 1..MaxTokens}

Body(fn, em, ph, pw, an, io, tk) ==
    [fullName |-> fn, email |-> em, phone |-> ph, password |-> pw,
     anonymous |-> an, isOfficer |-> io, token |-> tk]
EmptyBody == Body(Undefined, Undefined, Undefined, Undefined, Undefined, Undefined, Undefined)

\* Request bodies of the concurrent specifications.
RegisterBodies ==
    {Body(Ann, em, Phone1, Secret, JFalse, JTrue, Undefined) : em \in {EmailA, BadEmail}}
SendBodies(phones) ==
    {Body(Undefined, Undefined, ph, Undefined, Undefined, Undefined, Undefined) :
        ph \in phones \cup {Undefined, JStr(<<>>)}}
VerifyBodies(phones) ==
    {Body(Undefined, Undefined, ph, Undefined, Undefined, Undefined, tk) :
        ph \in phones \cup {Undefined}, tk \in Tokens \cup {Undefined, JStr(<<>>)}}

\* Request bodies of the registration-only specification: two accounts.
RaceBodies ==
    {Body(Ann, em, Phone1, Secret, JFalse, io, Undefined) :
        em \in {EmailA, EmailB, BadEmail}, io \in {JTrue}}

\* Request bodies of the single-request specification: every field varies.
FormBodies ==
    {Body(fn, em, ph, pw, an, io, Undefined) :
        fn \in {JStr(<<"A", "l">>), Ann},
        em \in {BadEmail, EmailA},
        ph \in {JStr(<<"0", "7">>), Phone1},
        pw \in {JStr(<<"1", "2", "3", "4", "5">>), Secret},
        an \in {Undefined, JFalse, JStr(<<"n", "o">>)},
        io \in {Undefined, JTrue, JFalse, JStr(<<"f", "a", "l", "s", "e">>)}}
\* ------------------------------------------------------------- state
VARIABLES
    users,      \* the users table of the hosted service, in insertion order
    otp,        \* the OTP channel: per phone, codes issued and whether the last is live
    reqs,       \* per connection: the request in flight and the call it awaits
    out,        \* the response the last step sent, if it sent one and is observed
    accepted,   \* history: phones for which the OTP channel has accepted a code
    observe     \* whether responses are recorded in out (fixed by the specification)

vars == <<users, otp, reqs, out, accepted, observe>>

Slots == 1..MaxInFlight

\* How the hosted service behaves on one call: it works, it reports a failure in
\* the result's `error`, or the awaited promise rejects.
Faults == {"none", "error", "throw"}

Idle == [route |-> "idle", pc |-> "idle", body |-> EmptyBody, calls |-> <<>>]
NoOut ==
    [route |-> "none", body |-> EmptyBody, status |-> 0,
     message |-> "", errors |-> <<>>, calls |-> <<>>]

Start ==
    /\ users = <<>>
    /\ otp = [p \in Phones |-> [n |-> 0, live |-> FALSE]]
    /\ reqs = [r \in Slots |-> Idle]
    /\ out = NoOut
    /\ accepted = {}

Init == Start /\ observe = TRUE
InitStore == Start /\ observe = FALSE

Call(op, fault, rows) == [op |-> op, fault |-> fault, rows |-> rows]

Request(route, b) == [route |-> route, pc |-> "start", body |-> b, calls |-> <<>>]

Calling(q, op, f, rows) == [q EXCEPT !.calls = Append(@, Call(op, f, rows))]

\* res.status(status).json(...): request q on connection r ends.
Respond(r, q, status, message, errors) ==
    /\ reqs' = [reqs EXCEPT ![r] = Idle]
    /\ out' = IF observe
              THEN [route |-> q.route, body |-> q.body, status |-> status,
                    message |-> message, errors |-> errors, calls |-> q.calls]
              ELSE NoOut

\* Request q on connection r awaits its next call.
Await(r, q, pc) ==
    /\ reqs' = [reqs EXCEPT ![r] = [q EXCEPT !.pc = pc]]
    /\ out' = NoOut

\* The catch block of each handler.
InternalError(r, q) == Respond(r, q, 500, "Internal server error.", <<>>)

\* ------------------------------------------------------ hosted service
\* Rows of the users table with the given email / phone.
RowsByEmail(email) == {i \in 1..Len(users) : users[i].email = email}
RowsByPhone(phone) == {i \in 1..Len(users) : users[i].phone = phone}

\* .select('id').eq('email', email).single(): data is the row when exactly one row
\* matches and the service works; otherwise data is null (an error is returned).
SingleData(f, rows) == f = "none" /\ rows = 1

\* Mutant of Updated: the .eq('phone', phone) filter is missing, every row is updated.
Updated_Unfiltered(phone) ==
    [i \in 1..Len(users) |-> [users[i] EXCEPT !.verification_status = TRUE]]

\* .update({verification_status: true}).eq('phone', phone) on a working service:
\* every matching row is updated; matching no row is not an error.
Updated(phone) ==
    [i \in 1..Len(users) |->
        IF users[i].phone = phone THEN [users[i] EXCEPT !.verification_status = TRUE]
        ELSE users[i]]

\* auth.verifyOtp: the pair is accepted when the code is the live code of the phone.
\* A code is for one use: accepting it ends it, and a new code replaces the last.
ValidOtp(phone, token) ==
    /\ phone \in Phones
    /\ otp[phone].live
    /\ token.t = "string"
    /\ token.s = Code(otp[phone].n)

\* ------------------------------------------------------ POST /register
\* Mutant of AfterSelect: the existingUser check is missing.
AfterSelect_NoDuplicateCheck(r, q, f, rows) ==
    IF f = "throw" THEN InternalError(r, q)
    ELSE Await(r, q, "insert")

\* After validation: from the result of the email lookup to the insert being awaited.
AfterSelect(r, q, f, rows) ==
    IF f = "throw" THEN InternalError(r, q)
    ELSE IF SingleData(f, rows)
         THEN Respond(r, q, 400, "Email is already registered.", <<>>)
         ELSE Await(r, q, "insert")

\* The request arrives, is validated, and its email lookup runs.
Register(r, b) ==
    /\ reqs[r] = Idle
    /\ LET q == Request("register", b)
           errors == validationResult(b)
       IN  IF errors # <<>> THEN Respond(r, q, 400, "", errors)
           ELSE \E f \in Faults :
                   LET rows == Cardinality(RowsByEmail(b.email))
                   IN  AfterSelect(r, Calling(q, "select", f, rows), f, rows)
    /\ UNCHANGED <<users, otp, accepted, observe>>

\* From the result of the insert to the response.
AfterInsert(r, q, f) ==
    IF f # "none" THEN InternalError(r, q)
    ELSE Respond(r, q, 200, "Registration successful. Please verify your phone.", <<>>)

\* The insert runs.
InsertReturns(r) ==
    /\ reqs[r].pc = "insert"
    /\ \E f \in Faults :
        /\ f = "none" => Len(users) < MaxUsers
        /\ users' = IF f = "none" THEN Append(users, NewUser(reqs[r].body)) ELSE users
        /\ AfterInsert(r, Calling(reqs[r], "insert", f, IF f = "none" THEN 1 ELSE 0), f)
    /\ UNCHANGED <<otp, accepted, observe>>

\* ------------------------------------------------------ POST /send-otp
AfterSignInWithOtp(r, q, f) ==
    IF f # "none" THEN InternalError(r, q)
    ELSE Respond(r, q, 200, "OTP sent successfully.", <<>>)

\* The whole handler: its one call has nothing before or after it but the response.
SendOtp(r, b) ==
    /\ reqs[r] = Idle
    /\ LET q == Request("send-otp", b)
       IN  IF ~Truthy(b.phone)
           THEN /\ Respond(r, q, 400, "Phone number is required.", <<>>)
                /\ otp' = otp
           ELSE \E f \in Faults :
                   /\ f = "none" => otp[b.phone].n < MaxTokens
                   /\ otp' = IF f = "none"
                             THEN [otp EXCEPT ![b.phone] = [n |-> @.n + 1, live |-> TRUE]]
                             ELSE otp
                   /\ AfterSignInWithOtp(r, Calling(q, "signInWithOtp", f, 0), f)
    /\ UNCHANGED <<users, accepted, observe>>

\* ---------------------------------------------------- POST /verify-otp
\* Mutant of AfterVerifyOtp: the error of verifyOtp is not checked.
AfterVerifyOtp_Unchecked(r, q, valid) == Await(r, q, "update")

\* From the result of the code check to the update being awaited.
AfterVerifyOtp(r, q, valid) ==
    IF ~valid THEN InternalError(r, q)
    ELSE Await(r, q, "update")

\* Mutant of MissingPhoneOrToken: && in place of ||.
MissingPhoneAndToken(b) == ~Truthy(b.phone) /\ ~Truthy(b.token)

\* if (!phone || !token)
MissingPhoneOrToken(b) == ~Truthy(b.phone) \/ ~Truthy(b.token)

\* The request arrives and the OTP channel checks its code (rows = 1: accepted).
VerifyOtp(r, b) ==
    /\ reqs[r] = Idle
    /\ LET q == Request("verify-otp", b)
       IN  IF MissingPhoneOrToken(b)
           THEN /\ Respond(r, q, 400, "Phone and OTP token are required.", <<>>)
                /\ UNCHANGED <<otp, accepted>>
           ELSE \E f \in Faults :
                   LET valid == f = "none" /\ ValidOtp(b.phone, b.token)
                   IN  /\ otp' = IF valid THEN [otp EXCEPT ![b.phone].live = FALSE] ELSE otp
                       /\ accepted' = IF valid THEN accepted \cup {b.phone} ELSE accepted
                       /\ AfterVerifyOtp(r, Calling(q, "verifyOtp", f, IF valid THEN 1 ELSE 0),
                                         valid)
    /\ UNCHANGED <<users, observe>>

\* Mutant of AfterUpdate: updateError is not checked.
AfterUpdate_Unchecked(r, q, f) ==
    IF f = "throw" THEN InternalError(r, q)
    ELSE Respond(r, q, 200, "Phone verified successfully.", <<>>)

\* From the result of the update to the response.
AfterUpdate(r, q, f) ==
    IF f # "none" THEN InternalError(r, q)
    ELSE Respond(r, q, 200, "Phone verified successfully.", <<>>)

\* The update runs.
UpdateReturns(r) ==
    /\ reqs[r].pc = "update"
    /\ \E f \in Faults :
        LET phone == reqs[r].body.phone
            rows == IF f = "none" THEN Cardinality(RowsByPhone(phone)) ELSE 0
        IN  /\ users' = IF f = "none" THEN Updated(phone) ELSE users
            /\ AfterUpdate(r, Calling(reqs[r], "update", f, rows), f)
    /\ UNCHANGED <<otp, accepted, observe>>

\* ---------------------------------------------------- specifications
\* Concurrent requests of the three routes on MaxInFlight connections, one phone.
Next ==
    \E r \in Slots :
        \/ \E b \in RegisterBodies : Register(r, b)
        \/ InsertReturns(r)
        \/ \E b \in SendBodies({Phone1}) : SendOtp(r, b)
        \/ \E b \in VerifyBodies({Phone1}) : VerifyOtp(r, b)
        \/ UpdateReturns(r)

Spec == Init /\ [][Next]_vars

\* The same with two phones, responses not recorded: the store and the OTP channel.
NextStore ==
    \E r \in Slots :
        \/ \E b \in RegisterBodies : Register(r, b)
        \/ InsertReturns(r)
        \/ \E b \in SendBodies(Phones) : SendOtp(r, b)
        \/ \E b \in VerifyBodies(Phones) : VerifyOtp(r, b)
        \/ UpdateReturns(r)

SpecStore == InitStore /\ [][NextStore]_vars

\* Concurrent registrations only.
NextRegister ==
    \E r \in Slots :
        \/ \E b \in RaceBodies : Register(r, b)
        \/ InsertReturns(r)

SpecRegister == Init /\ [][NextRegister]_vars

\* One registration at a time, every field of the body varying.
NextForm ==
    \/ \E b \in FormBodies : Register(1, b)
    \/ InsertReturns(1)

SpecForm == Init /\ [][NextForm]_vars

\* ============================================================ claims
Ops(calls) == [i \in 1..Len(calls) |-> calls[i].op]
Failed(call) == call.fault # "none"
Officer == "Law Enforcement Officer"

\* The rule of section 4.1 for each field: the length and syntax rules, and for
\* the two flags a value of boolean type.
Rule(f, b) ==
    CASE f = "fullName" -> b.fullName.t = "string" /\ Len(b.fullName.s) >= MinFullName
      [] f = "email" -> b.email.t = "string" /\ isEmail(b.email.s)
      [] f = "phone" -> b.phone.t = "string" /\ isMobilePhone(b.phone.s)
      [] f = "password" -> b.password.t = "string" /\ Len(b.password.s) >= MinPassword
      [] f = "anonymous" -> b.anonymous.t = "boolean"
      [] f = "isOfficer" -> b.isOfficer.t = "boolean"
ViolatesRule(b) == \E i \in 1..Len(RegisterFields) : ~Rule(RegisterFields[i], b)

\* C1 (as claimed): a /register request with a field missing or violating its rule
\* is answered 400 and makes no external call; it never comes to await one.
C1_InvalidRegisterRejected ==
    /\ \A r \in Slots :
        reqs[r].route = "register" => ~ViolatesRule(reqs[r].body)
    /\ (out.route = "register" /\ ViolatesRule(out.body))
        => (out.status = 400 /\ out.calls = <<>>)

\* C2 (as claimed): a valid /register whose email is the email of a record in the
\* store when its (working) lookup runs is answered 400 'Email is already
\* registered.' and performs no insert.
C2_DuplicateEmailRejected ==
    /\ \A r \in Slots :
        (reqs[r].pc = "insert" /\ ~Failed(reqs[r].calls[1]))
            => reqs[r].calls[1].rows = 0
    /\ (out.route = "register" /\ out.calls # <<>> /\ ~Failed(out.calls[1])
            /\ out.calls[1].rows >= 1)
        => (out.status = 400 /\ out.message = "Email is already registered."
            /\ Ops(out.calls) = <<"select">>)

\* C3 (as claimed): a failure reported by the service on any call ends the request
\* with 500 'Internal server error.', with no later call in the same request.
C3_ExternalFailureIs500 ==
    /\ \A r \in Slots : \A i \in 1..Len(reqs[r].calls) : ~Failed(reqs[r].calls[i])
    /\ \A i \in 1..Len(out.calls) :
        Failed(out.calls[i])
            => (out.status = 500 /\ out.message = "Internal server error."
                /\ i = Len(out.calls))

\* C4 (as claimed): /verify-otp answers 200 only if the record with that phone has
\* verification_status = true as the response is sent; when no record matches the
\* phone the answer is 500, not 200.
C4_VerifiedBefore200 ==
    (out.route = "verify-otp" /\ out.status = 200)
        => /\ RowsByPhone(out.body.phone) # {}
           /\ \A i \in RowsByPhone(out.body.phone) : users[i].verification_status

\* C5: a /verify-otp request whose (phone, token) pair the service rejects is
\* answered 500, makes no update call, and changes no account record.
C5_RejectedOtpChangesNothing ==
    [][(out'.route = "verify-otp" /\ out'.calls # <<>> /\ out'.calls[1].rows = 0)
        => (/\ out'.status = 500
            /\ Ops(out'.calls) = <<"verifyOtp">>
            /\ users' = users)]_vars

\* C5 witness: a token the service already consumed is submitted again and refused.
C5_Witness ==
    /\ out.route = "verify-otp"
    /\ out.status = 500
    /\ out.calls # <<>>
    /\ ~Failed(out.calls[1])
    /\ out.body.phone \in accepted
    /\ ~otp[out.body.phone].live
    /\ out.body.token.s = Code(otp[out.body.phone].n)
    /\ \E i \in RowsByPhone(out.body.phone) : users[i].verification_status

\* C6: a record is created with verification_status = false; it is true only if
\* the service has accepted a code for the record's phone; once true it stays true.
C6_VerificationOneWay ==
    /\ [](\A i \in 1..Len(users) : users[i].verification_status => users[i].phone \in accepted)
    /\ [][/\ Len(users') >= Len(users)
          /\ \A i \in 1..Len(users') :
                IF i > Len(users) THEN ~users'[i].verification_status
                ELSE users[i].verification_status => users'[i].verification_status]_vars

\* C6 witness: a verified record, while a code was also accepted for another phone.
C6_Witness ==
    /\ \E i \in 1..Len(users) : users[i].verification_status
    /\ \E i \in 1..Len(users) : ~users[i].verification_status
    /\ accepted = Phones

\* C7: the inserted record has role officer and officer_verification = false when
\* isOfficer is true, role citizen and officer_verification = null when isOfficer is
\* false; a request inserts at most once and never calls the OTP send.
C7_RoleFromIsOfficer ==
    /\ [][Len(users') # Len(users)
            => /\ users' = Append(users, users'[Len(users')])
               /\ out'.route = "register"
               /\ LET u == users'[Len(users')]
                  IN  /\ u.email = out'.body.email
                      /\ out'.body.isOfficer = JTrue
                            => (u.role = Officer /\ u.officer_verification = JFalse)
                      /\ out'.body.isOfficer = JFalse
                            => (u.role = "Citizen" /\ u.officer_verification = JNull)]_vars
    /\ [](out.route = "register"
            => /\ Cardinality({i \in 1..Len(out.calls) : out.calls[i].op = "insert"}) <= 1
               /\ \A i \in 1..Len(out.calls) : out.calls[i].op \in {"select", "insert"})
    /\ [][out'.route = "register" => otp' = otp]_vars

\* C7 witness: a citizen was just registered with isOfficer = false, next to an
\* officer record.
C7_Witness ==
    /\ out.route = "register"
    /\ out.status = 200
    /\ out.body.isOfficer = JFalse
    /\ users[Len(users)].role = "Citizen"
    /\ \E i \in 1..Len(users) : users[i].role = Officer

\* C8: /send-otp without a phone and /verify-otp without a phone or a token are
\* answered 400 before any external call; no /send-otp request touches a record.
C8_MissingFields400 ==
    /\ []((out.route = "send-otp" /\ ~Truthy(out.body.phone))
            => (out.status = 400 /\ out.calls = <<>>))
    /\ []((out.route = "verify-otp" /\ (~Truthy(out.body.phone) \/ ~Truthy(out.body.token)))
            => (out.status = 400 /\ out.calls = <<>>))
    /\ [](\A r \in Slots : reqs[r].route = "verify-otp"
            => (Truthy(reqs[r].body.phone) /\ Truthy(reqs[r].body.token)))
    /\ [](out.route = "send-otp" => \A i \in 1..Len(out.calls) : out.calls[i].op = "signInWithOtp")
    /\ [][out'.route = "send-otp" => users' = users]_vars

\* C8 witness: a /verify-otp with a phone and no token was answered 400 while
\* accounts exist.
C8_Witness ==
    /\ out.route = "verify-otp"
    /\ out.status = 400
    /\ Truthy(out.body.phone)
    /\ ~Truthy(out.body.token)
    /\ users # <<>>

\* C9: the insert is decided by the request's own earlier lookup alone: a request
\* awaits the insert exactly when its lookup gave no row, and is answered 200
\* exactly after that lookup and a successful insert, with no second check.
C9_CheckThenInsert ==
    /\ \A r \in Slots :
        reqs[r].pc = "insert"
            => /\ Ops(reqs[r].calls) = <<"select">>
               /\ ~SingleData(reqs[r].calls[1].fault, reqs[r].calls[1].rows)
    /\ (out.route = "register" /\ out.status = 200)
        => /\ Ops(out.calls) = <<"select", "insert">>
           /\ ~SingleData(out.calls[1].fault, out.calls[1].rows)
           /\ ~Failed(out.calls[2])
           /\ RowsByEmail(out.body.email) # {}

\* C9 witness: both lookups ran on a working service before either insert, both
\* requests inserted and were answered 200, and the store holds two records with
\* the same email.
C9_Witness ==
    /\ out.route = "register"
    /\ out.status = 200
    /\ ~Failed(out.calls[1])
    /\ out.calls[1].rows = 0
    /\ Cardinality(RowsByEmail(out.body.email)) = 2

\* A code of the phone that was issued and is no longer live.
UsedCode(phone, token) ==
    /\ phone \in Phones
    /\ \E n \in 1..otp[phone].n :
        token.s = Code(n) /\ ~(otp[phone].live /\ n = otp[phone].n)

\* C10: when the update fails after the code was accepted, the request is answered
\* 500 and nothing is compensated: the records and the consumed code stay as they
\* are; and a /verify-otp submitting a used code never comes to the update.
C10_NoCompensation ==
    /\ [](\A i \in 1..Len(out.calls) :
            (out.calls[i].op = "update" /\ Failed(out.calls[i]))
                => (out.status = 500 /\ i = Len(out.calls)))
    /\ [][\A r \in Slots :
            /\ (reqs[r].pc = "update" /\ reqs'[r] = Idle /\ out'.status = 500)
                => (users' = users /\ otp' = otp /\ accepted' = accepted)
            /\ (reqs[r] = Idle /\ reqs'[r].pc = "update")
                => ~UsedCode(reqs'[r].body.phone, reqs'[r].body.token)]_vars

\* C10 witness: the code was accepted and consumed, the update failed, the answer
\* was 500, and the record with that phone is still unverified.
C10_Witness ==
    /\ out.route = "verify-otp"
    /\ out.status = 500
    /\ Ops(out.calls) = <<"verifyOtp", "update">>
    /\ out.calls[1].rows = 1
    /\ Failed(out.calls[2])
    /\ ~otp[out.body.phone].live
    /\ UsedCode(out.body.phone, out.body.token)
    /\ \E i \in RowsByPhone(out.body.phone) : ~users[i].verification_status

====
